---- MODULE Spec2Model ----
(***************************************************************************)
(* The paper-pulse pipeline (backend/pipeline, main.py) as a state machine. *)
(*                                                                         *)
(* Spec        : one run of main(): graph.invoke from the entry point       *)
(*               paper_discovery_node, routed by each node's Command(goto). *)
(* CollectSpec : collect_results_node (the "reduce" step of the             *)
(*               single-paper design) applied to a list of SinglePaperState *)
(*               drawn from a bounded set, followed by delivery_node.       *)
(*                                                                         *)
(* The pipeline state is a Python dict: it is modelled as a function whose  *)
(* DOMAIN is the set of keys present, so state.get(k, default) and a        *)
(* Command's update (a merge) are what they are in the code.                *)
(* A Paper is modelled by the fields the nodes read: id, ai_keywords and    *)
(* the processing status. Paper(...) in _fetch_daily_papers is taken to     *)
(* build the object its call site describes.                                *)
(***************************************************************************)
EXTENDS Integers, Sequences, FiniteSets, TLC

\* ------------------------------------------------------------------ bounds
\* Longest response of the source feed / longest list handed to the collector.
MaxPapers == 3
MaxInbox == 3

\* --------------------------------------------------------------- constants
\* backend/pipeline/node_types.py
PAPER_DISCOVERY_NODE == "paper_discovery_node"
MAP_EXTRACTION_NODE == "map_extraction_node"
PROCESS_SINGLE_PAPER_NODE == "process_single_paper"
EXTRACT_SINGLE_PAPER_NODE == "extract_single_paper_node"
ANALYZE_SINGLE_PAPER_NODE == "analyze_single_paper_node"
COLLECT_RESULTS_NODE == "collect_results_node"
DELIVERY_NODE == "delivery_node"
\* langgraph's START and END
START == "__start__"
END == "__end__"

\* Python's None (for the string-valued optional field "error").
None == "None"

\* settings={"limit": 3}
limit == 3

PaperIds == {"p1", "p2"}

\* ai_keywords as it comes from the feed's JSON: missing or empty (falsy), a
\* list of strings, or a truthy value that is not a list of strings, for which
\* ', '.join(paper.ai_keywords[:5]) raises TypeError.
KeywordShapes == {"absent", "strings", "malformed"}

VARIABLES
    current_node,   \* the node graph.invoke runs next (START before, END after)
    state,          \* the PipelineState dict
    frame,          \* locals of map_extraction_node while its loop runs
    inbox,          \* the list[SinglePaperState] handed to collect_results_node
    tasks,          \* the single-paper sub-workflows: index -> position and state
    response,       \* what requests.get(...) gave the discovery step
    clock,          \* datetime.now(): strictly increasing
    exception,      \* the exception that left graph.invoke, or None
    exit_code,      \* the process's exit code once main() is over, or -1
    log             \* the steps run so far, as logged

vars == <<current_node, state, frame, inbox, tasks, response, clock,
          exception, exit_code, log>>

\* ------------------------------------------------------------ dict helpers
Get(d, k, default) == IF k \in DOMAIN d THEN d[k] ELSE default

Update(d, u) ==
    [k \in (DOMAIN d) \cup (DOMAIN u) |-> IF k \in DOMAIN u THEN u[k] ELSE d[k]]

EmptyDict == << >>

DictSet(d, k, v) == [x \in (DOMAIN d) \cup {k} |-> IF x = k THEN v ELSE d[x]]

\* ------------------------------------------------------------- data model
\* Paper, with ProcessingInfo.status defaulting to DISCOVERED.
Paper(id, kw) == [id |-> id, ai_keywords |-> kw, status |-> "discovered"]

Papers == {Paper(i, k) : i \in PaperIds, k \in KeywordShapes}

\* One element of the feed's JSON list: with a "paper" entry or without.
RawItems ==
    {[has_paper |-> TRUE, id |-> i, ai_keywords |-> k] :
        i \in PaperIds, k \in KeywordShapes}
    \cup {[has_paper |-> FALSE, id |-> "", ai_keywords |-> "absent"]}

SeqsUpTo(S, n) == UNION {[1..m -> S] : m \in 0..n}

\* The outcome of requests.get / raise_for_status / response.json and of the
\* conversion loop: a RequestException, any other exception while converting
\* (malformed data), or a list of items.
Responses ==
    {[kind |-> "request_error", items |-> <<>>],
     [kind |-> "malformed", items |-> <<>>]}
    \cup {[kind |-> "ok", items |-> s] : s \in SeqsUpTo(RawItems, MaxPapers)}

NoResponse == [kind |-> "none", items |-> <<>>]

\* Mutant: `paper_data = item.get("paper", {})` in place of the guard
\* `if "paper" in item`, so that every element of the list becomes a Paper.
RECURSIVE ConvertItemsNoGuard(_)
ConvertItemsNoGuard(items) ==
    IF items = <<>> THEN <<>>
    ELSE <<Paper(Head(items).id, Head(items).ai_keywords)>>
         \o ConvertItemsNoGuard(Tail(items))

RECURSIVE ConvertItems(_)
ConvertItems(items) ==
    IF items = <<>> THEN <<>>
    ELSE LET item == Head(items)
             rest == ConvertItems(Tail(items))
         IN IF item.has_paper
            THEN <<Paper(item.id, item.ai_keywords)>> \o rest
            ELSE rest

fetch_daily_papers(resp) ==
    IF resp.kind = "ok" THEN ConvertItems(resp.items) ELSE <<>>

\* Mutant: the run starts with the top-level error already set.
initial_state_with_error ==
    [settings |-> [limit |-> limit],
     discovered_papers |-> <<>>,
     pipeline_id |-> "pipeline-1",
     start_time |-> 0,
     error |-> "unset"]

\* ----------------------------------------------------------------- main.py
initial_state ==
    [settings |-> [limit |-> limit],
     discovered_papers |-> <<>>,
     pipeline_id |-> "pipeline-1",
     start_time |-> 0,
     error |-> None]

NoFrame == [active |-> FALSE]

\* No single-paper sub-workflow has been started.
NoTasks == << >>

Init ==
    /\ current_node = START
    /\ state = initial_state
    /\ frame = NoFrame
    /\ inbox = <<>>
    /\ tasks = NoTasks
    /\ response = NoResponse
    /\ clock = 1
    /\ exception = None
    /\ exit_code = -1
    /\ log = <<>>

Running == exception = None /\ exit_code = -1

\* Mutant: flow.set_entry_point(MAP_EXTRACTION_NODE), the run starts past the
\* discovery step.
graph_invoke_wrong_entry ==
    /\ Running
    /\ current_node = START
    /\ current_node' = MAP_EXTRACTION_NODE
    /\ UNCHANGED <<state, frame, inbox, tasks, response, clock, exception,
                   exit_code, log>>

\* result = graph.invoke(initial_state): the entry point is the discovery node.
graph_invoke ==
    /\ Running
    /\ current_node = START
    /\ current_node' = PAPER_DISCOVERY_NODE
    /\ UNCHANGED <<state, frame, inbox, tasks, response, clock, exception,
                   exit_code, log>>

\* graph.invoke returned: main() logs and returns.
main_return ==
    /\ Running
    /\ current_node = END
    /\ exit_code' = 0
    /\ UNCHANGED <<current_node, state, frame, inbox, tasks, response, clock,
                   exception, log>>

\* KeyboardInterrupt is a BaseException: `except Exception` does not catch it.
KeyboardInterrupt == "KeyboardInterrupt"

\* except Exception: log and re-raise; the interpreter exits with status 1.
main_raise ==
    /\ exception \notin {None, KeyboardInterrupt}
    /\ exit_code = -1
    /\ exit_code' = 1
    /\ UNCHANGED <<current_node, state, frame, inbox, tasks, response, clock,
                   exception, log>>

\* ------------------------------------------------------------ pipeline nodes
Event(op, idx) == [op |-> op, idx |-> idx]

\* Mutant: the `if not papers` branch is missing, so an empty or failed fetch
\* goes on to map_extraction_node like any other.
paper_discovery_node_no_guard ==
    /\ Running
    /\ current_node = PAPER_DISCOVERY_NODE
    /\ \E resp \in Responses :
        LET papers == fetch_daily_papers(resp)
        IN /\ response' = resp
           /\ log' = Append(log, Event("discover", Len(papers)))
           /\ current_node' = MAP_EXTRACTION_NODE
           /\ state' = Update(state, [discovered_papers |-> papers])
    /\ UNCHANGED <<frame, inbox, tasks, clock, exception, exit_code>>

paper_discovery_node ==
    /\ Running
    /\ current_node = PAPER_DISCOVERY_NODE
    /\ \E resp \in Responses :
        LET papers == fetch_daily_papers(resp)
        IN /\ response' = resp
           /\ log' = Append(log, Event("discover", Len(papers)))
           /\ IF papers = <<>>
              THEN /\ current_node' = END
                   /\ state' = Update(state, [error |-> "No papers fetched"])
              ELSE /\ current_node' = MAP_EXTRACTION_NODE
                   /\ state' = Update(state, [discovered_papers |-> papers])
    /\ UNCHANGED <<frame, inbox, tasks, clock, exception, exit_code>>

\* extracted_content / analysis as the nodes build them (placeholders).
ExtractedContent(paper_id, now) ==
    [status |-> "extracted", content |-> "placeholder", paper_id |-> paper_id,
     extraction_timestamp |-> now]

Analysis(paper_id, now) ==
    [status |-> "analyzed", paper_id |-> paper_id, analysis_timestamp |-> now]

\* Whether the analysis part of an item's processing raises: the log line
\* ', '.join(paper.ai_keywords[:5]) on a value that is no list of strings.
AnalysisRaises(paper) == paper.ai_keywords = "malformed"

\* Mutant: the early return of the empty case is taken whatever the list holds
\* (the `if not discovered_papers` test is lost).
map_extraction_enter_always_complete ==
    /\ Running
    /\ current_node = MAP_EXTRACTION_NODE
    /\ ~frame.active
    /\ current_node' = DELIVERY_NODE
    /\ state' = Update(state, [processing_complete |-> TRUE])
    /\ UNCHANGED <<frame, inbox, tasks, response, clock, exception, exit_code,
                   log>>

\* map_extraction_node up to its loop: the guard on an empty list, then the
\* empty accumulators.
map_extraction_enter ==
    /\ Running
    /\ current_node = MAP_EXTRACTION_NODE
    /\ ~frame.active
    /\ IF Get(state, "discovered_papers", <<>>) = <<>>
       THEN /\ current_node' = DELIVERY_NODE
            /\ state' = Update(state, [processing_complete |-> TRUE])
            /\ frame' = frame
       ELSE /\ frame' = [active |-> TRUE,
                         idx |-> 0,
                         processed_papers |-> <<>>,
                         extraction_results |-> EmptyDict,
                         analysis_results |-> EmptyDict]
            /\ UNCHANGED <<current_node, state>>
    /\ UNCHANGED <<inbox, tasks, response, clock, exception, exit_code, log>>

\* Paper.update_status: self.processing.status = status.
update_status(paper, status) == [paper EXCEPT !.status = status]

\* Mutant: the loop marks each paper it has processed (paper.update_status);
\* the paper object is the one the discovered list holds.
map_extraction_iter_updates_status ==
    /\ Running
    /\ current_node = MAP_EXTRACTION_NODE
    /\ frame.active
    /\ frame.idx < Len(state["discovered_papers"])
    /\ LET idx == frame.idx
           paper == update_status(state["discovered_papers"][idx + 1],
                                  "extracted")
       IN /\ log' = log \o <<Event("extract", idx), Event("analyze", idx)>>
          /\ state' = [state EXCEPT !["discovered_papers"][idx + 1] = paper]
          /\ IF AnalysisRaises(paper)
             THEN /\ exception' = "TypeError"
                  /\ frame' = NoFrame
                  /\ clock' = clock + 1
             ELSE /\ exception' = exception
                  /\ clock' = clock + 2
                  /\ frame' =
                        [active |-> TRUE,
                         idx |-> idx + 1,
                         processed_papers |->
                            Append(frame.processed_papers, paper),
                         extraction_results |->
                            DictSet(frame.extraction_results, idx,
                                    ExtractedContent(paper.id, clock)),
                         analysis_results |->
                            DictSet(frame.analysis_results, idx,
                                    Analysis(paper.id, clock + 1))]
    /\ UNCHANGED <<current_node, inbox, tasks, response, exit_code>>

\* Mutant: the analysis failure of an item is swallowed (try/except around
\* the analysis part, then `continue`): the item's extraction stays recorded,
\* its analysis does not.
map_extraction_iter_partial ==
    /\ Running
    /\ current_node = MAP_EXTRACTION_NODE
    /\ frame.active
    /\ frame.idx < Len(state["discovered_papers"])
    /\ LET idx == frame.idx
           paper == state["discovered_papers"][idx + 1]
       IN /\ log' = log \o <<Event("extract", idx), Event("analyze", idx)>>
          /\ clock' = clock + 2
          /\ frame' =
                [active |-> TRUE,
                 idx |-> idx + 1,
                 processed_papers |-> Append(frame.processed_papers, paper),
                 extraction_results |->
                    DictSet(frame.extraction_results, idx,
                            ExtractedContent(paper.id, clock)),
                 analysis_results |->
                    IF AnalysisRaises(paper)
                    THEN frame.analysis_results
                    ELSE DictSet(frame.analysis_results, idx,
                                 Analysis(paper.id, clock + 1))]
    /\ UNCHANGED <<current_node, state, inbox, tasks, response, exception, exit_code>>

\* Mutant: results are stored under a 1-based index (enumerate(..., 1)).
map_extraction_iter_one_based ==
    /\ Running
    /\ current_node = MAP_EXTRACTION_NODE
    /\ frame.active
    /\ frame.idx < Len(state["discovered_papers"])
    /\ LET idx == frame.idx
           paper == state["discovered_papers"][idx + 1]
       IN /\ log' = log \o <<Event("extract", idx + 1), Event("analyze", idx + 1)>>
          /\ IF AnalysisRaises(paper)
             THEN /\ exception' = "TypeError"
                  /\ frame' = NoFrame
                  /\ clock' = clock + 1
             ELSE /\ exception' = exception
                  /\ clock' = clock + 2
                  /\ frame' =
                        [active |-> TRUE,
                         idx |-> idx + 1,
                         processed_papers |->
                            Append(frame.processed_papers, paper),
                         extraction_results |->
                            DictSet(frame.extraction_results, idx + 1,
                                    ExtractedContent(paper.id, clock)),
                         analysis_results |->
                            DictSet(frame.analysis_results, idx + 1,
                                    Analysis(paper.id, clock + 1))]
    /\ UNCHANGED <<current_node, state, inbox, tasks, response, exit_code>>

\* One iteration of `for idx, paper in enumerate(state["discovered_papers"])`:
\* the extraction of the item, then its analysis. An exception leaves the node
\* and graph.invoke; the node's locals are lost and no update is applied.
map_extraction_iter ==
    /\ Running
    /\ current_node = MAP_EXTRACTION_NODE
    /\ frame.active
    /\ frame.idx < Len(state["discovered_papers"])
    /\ LET idx == frame.idx
           paper == state["discovered_papers"][idx + 1]
       IN /\ log' = log \o <<Event("extract", idx), Event("analyze", idx)>>
          /\ IF AnalysisRaises(paper)
             THEN /\ exception' = "TypeError"
                  /\ frame' = NoFrame
                  /\ clock' = clock + 1
             ELSE /\ exception' = exception
                  /\ clock' = clock + 2
                  /\ frame' =
                        [active |-> TRUE,
                         idx |-> idx + 1,
                         processed_papers |->
                            Append(frame.processed_papers, paper),
                         extraction_results |->
                            DictSet(frame.extraction_results, idx,
                                    ExtractedContent(paper.id, clock)),
                         analysis_results |->
                            DictSet(frame.analysis_results, idx,
                                    Analysis(paper.id, clock + 1))]
    /\ UNCHANGED <<current_node, state, inbox, tasks, response, exit_code>>

\* Mutant: the node returns as soon as one item is done (a race to the first
\* outcome instead of a join over all of them).
map_extraction_return_first ==
    /\ Running
    /\ current_node = MAP_EXTRACTION_NODE
    /\ frame.active
    /\ frame.idx >= 1
    /\ current_node' = DELIVERY_NODE
    /\ state' = Update(state,
                    [processed_papers |-> frame.processed_papers,
                     extraction_results |-> frame.extraction_results,
                     analysis_results |-> frame.analysis_results,
                     processing_complete |-> TRUE])
    /\ frame' = NoFrame
    /\ UNCHANGED <<inbox, tasks, response, clock, exception, exit_code, log>>

\* The loop is over: return Command(goto=DELIVERY_NODE, update={...}).
map_extraction_return ==
    /\ Running
    /\ current_node = MAP_EXTRACTION_NODE
    /\ frame.active
    /\ frame.idx = Len(state["discovered_papers"])
    /\ current_node' = DELIVERY_NODE
    /\ state' = Update(state,
                    [processed_papers |-> frame.processed_papers,
                     extraction_results |-> frame.extraction_results,
                     analysis_results |-> frame.analysis_results,
                     processing_complete |-> TRUE])
    /\ frame' = NoFrame
    /\ UNCHANGED <<inbox, tasks, response, clock, exception, exit_code, log>>

\* Mutant: the count is read from a key no earlier node writes.
delivery_node_wrong_key ==
    /\ Running
    /\ current_node = DELIVERY_NODE
    /\ current_node' = END
    /\ state' = Update(state,
                    [delivery_status |->
                        [delivered_at |-> clock,
                         status |-> "delivered",
                         channel_count |-> 1,
                         paper_count |-> Len(Get(state, "papers", <<>>))]])
    /\ clock' = clock + 1
    /\ log' = Append(log, Event("deliver", Len(Get(state, "papers", <<>>))))
    /\ UNCHANGED <<frame, inbox, tasks, response, exception, exit_code>>

\* Mutant: the node returns Command(goto=END) without its update.
delivery_node_no_status ==
    /\ Running
    /\ current_node = DELIVERY_NODE
    /\ current_node' = END
    /\ clock' = clock + 1
    /\ log' = Append(log, Event("deliver", Len(Get(state, "processed_papers", <<>>))))
    /\ UNCHANGED <<state, frame, inbox, tasks, response, exception, exit_code>>

delivery_node ==
    /\ Running
    /\ current_node = DELIVERY_NODE
    /\ current_node' = END
    /\ state' = Update(state,
                    [delivery_status |->
                        [delivered_at |-> clock,
                         status |-> "delivered",
                         channel_count |-> 1,
                         paper_count |->
                            Len(Get(state, "processed_papers", <<>>))]])
    /\ clock' = clock + 1
    /\ log' = Append(log, Event("deliver", Len(Get(state, "processed_papers", <<>>))))
    /\ UNCHANGED <<frame, inbox, tasks, response, exception, exit_code>>

Next ==
    \/ graph_invoke
    \/ paper_discovery_node
    \/ map_extraction_enter
    \/ map_extraction_iter
    \/ map_extraction_return
    \/ delivery_node
    \/ main_return
    \/ main_raise

Spec == Init /\ [][Next]_vars

\* graph.invoke runs a node whenever one is due, and main() goes on when it
\* returns or raises: no step that can be taken is put off for ever.
FairSpec == Spec /\ WF_vars(Next)

\* ------------------------------------------------------------ cancellation
\* The process gets SIGINT while main() runs. Nothing in the program handles
\* the signal or catches KeyboardInterrupt, so the exception unwinds whatever
\* node is running (its locals are lost, no update is applied), graph.invoke
\* and main().
\* Mutant: the interrupted node saves what it has accumulated into the
\* pipeline state on its way out.
keyboard_interrupt_keeps_partial ==
    /\ Running
    /\ exception' = KeyboardInterrupt
    /\ frame' = NoFrame
    /\ state' = IF frame.active
                THEN Update(state,
                        [processed_papers |-> frame.processed_papers,
                         extraction_results |-> frame.extraction_results,
                         analysis_results |-> frame.analysis_results])
                ELSE state
    /\ UNCHANGED <<current_node, inbox, tasks, response, clock, exit_code, log>>

keyboard_interrupt ==
    /\ Running
    /\ exception' = KeyboardInterrupt
    /\ frame' = NoFrame
    /\ UNCHANGED <<current_node, state, inbox, tasks, response, clock, exit_code, log>>

\* The interpreter ends on the unhandled KeyboardInterrupt (status 130).
main_interrupted ==
    /\ exception = KeyboardInterrupt
    /\ exit_code = -1
    /\ exit_code' = 130
    /\ UNCHANGED <<current_node, state, frame, inbox, tasks, response, clock,
                   exception, log>>

CancelNext ==
    \/ Next
    \/ keyboard_interrupt
    \/ main_interrupted

CancelSpec == Init /\ [][CancelNext]_vars

\* ------------------------------------------------- collect_results_node
\* A SinglePaperState: paper, paper_index and pipeline_id, and the keys
\* extracted_content and analysis once the item's steps have written them.
InboxPapers == {Paper(i, "strings") : i \in PaperIds}

PaperIndices == 0..(MaxInbox - 1)

SinglePaperStates ==
    LET base(p, i) ==
            [paper |-> p, paper_index |-> i, pipeline_id |-> "pipeline-1"]
    IN UNION {
        {base(p, i),
         Update(base(p, i), [extracted_content |-> ExtractedContent(p.id, 0)]),
         Update(base(p, i), [extracted_content |-> ExtractedContent(p.id, 0),
                             analysis |-> Analysis(p.id, 0)])}
        : p \in InboxPapers, i \in PaperIndices}

\* Mutant: every state is filed under the same key, whatever its paper_index.
CollectOne_shared_key(acc, paper_state) ==
    LET paper == Get(paper_state, "paper", None)
    IN [processed_papers |-> Append(acc.processed_papers, paper),
        extraction_results |->
            IF "extracted_content" \in DOMAIN paper_state
            THEN DictSet(acc.extraction_results, 0,
                         paper_state["extracted_content"])
            ELSE acc.extraction_results,
        analysis_results |->
            IF "analysis" \in DOMAIN paper_state
            THEN DictSet(acc.analysis_results, 0, paper_state["analysis"])
            ELSE acc.analysis_results]

\* The body of `for paper_state in state`, on the accumulators.
CollectOne(acc, paper_state) ==
    LET paper_idx == Get(paper_state, "paper_index", 0)
        paper == Get(paper_state, "paper", None)
    IN [processed_papers |-> Append(acc.processed_papers, paper),
        extraction_results |->
            IF "extracted_content" \in DOMAIN paper_state
            THEN DictSet(acc.extraction_results, paper_idx,
                         paper_state["extracted_content"])
            ELSE acc.extraction_results,
        analysis_results |->
            IF "analysis" \in DOMAIN paper_state
            THEN DictSet(acc.analysis_results, paper_idx,
                         paper_state["analysis"])
            ELSE acc.analysis_results]

RECURSIVE CollectLoop(_, _)
CollectLoop(acc, states) ==
    IF states = <<>> THEN acc
    ELSE CollectLoop(CollectOne(acc, Head(states)), Tail(states))

\* The update collect_results_node returns for a list of states.
CollectResults(states) ==
    LET acc == CollectLoop([processed_papers |-> <<>>,
                            extraction_results |-> EmptyDict,
                            analysis_results |-> EmptyDict], states)
    IN [processed_papers |-> acc.processed_papers,
        extraction_results |-> acc.extraction_results,
        analysis_results |-> acc.analysis_results,
        processing_complete |-> TRUE]

\* paper_idx of the paper_state behind each element of processed_papers.
ProcessedIndices(states) ==
    [k \in 1..Len(states) |-> Get(states[k], "paper_index", 0)]

collect_results_node ==
    /\ Running
    /\ current_node = COLLECT_RESULTS_NODE
    /\ current_node' = DELIVERY_NODE
    /\ state' = Update(state, CollectResults(inbox))
    /\ log' = Append(log, Event("collect", Len(inbox)))
    /\ UNCHANGED <<frame, inbox, tasks, response, clock, exception, exit_code>>

\* collect_results_node entered with any list of at most MaxInbox states.
CollectInit ==
    /\ current_node = COLLECT_RESULTS_NODE
    /\ state = initial_state
    /\ frame = NoFrame
    /\ inbox \in SeqsUpTo(SinglePaperStates, MaxInbox)
    /\ tasks = NoTasks
    /\ response = NoResponse
    /\ clock = 1
    /\ exception = None
    /\ exit_code = -1
    /\ log = <<>>

CollectNext ==
    \/ collect_results_node
    \/ delivery_node
    \/ main_return

CollectSpec == CollectInit /\ [][CollectNext]_vars

\* ------------------------------------------------- single-paper sub-workflow
\* build_single_paper_subgraph: extract_single_paper_node, then
\* analyze_single_paper_node, each run on the SinglePaperState of one item.
\* tasks[i] is the sub-workflow of the item at position i: the node it is to
\* run next, its SinglePaperState, and whether its state was handed on.
MaxTasks == 2

TaskIndices == DOMAIN tasks

\* One sub-workflow per discovered item, its paper_index the item's position;
\* discovery has completed before any of them starts.
fan_out ==
    /\ Running
    /\ current_node = PROCESS_SINGLE_PAPER_NODE
    /\ tasks = NoTasks
    /\ tasks' =
        [i \in 0..(Len(state["discovered_papers"]) - 1) |->
            [node |-> EXTRACT_SINGLE_PAPER_NODE,
             joined |-> FALSE,
             state |-> [paper |-> state["discovered_papers"][i + 1],
                        paper_index |-> i,
                        pipeline_id |-> state["pipeline_id"]]]]
    /\ UNCHANGED <<current_node, state, frame, inbox, response, clock,
                   exception, exit_code, log>>

\* Mutant: the extraction step hands over to the analysis without writing
\* extracted_content.
extract_single_paper_node_no_update(i) ==
    /\ Running
    /\ i \in TaskIndices
    /\ tasks[i].node = EXTRACT_SINGLE_PAPER_NODE
    /\ tasks' = [tasks EXCEPT ![i].node = ANALYZE_SINGLE_PAPER_NODE]
    /\ clock' = clock + 1
    /\ log' = Append(log, Event("extract", tasks[i].state["paper_index"]))
    /\ UNCHANGED <<current_node, state, frame, inbox, response, exception,
                   exit_code>>

\* Command(goto=ANALYZE_SINGLE_PAPER_NODE,
\*         update={"extracted_content": extracted_content})
extract_single_paper_node(i) ==
    /\ Running
    /\ i \in TaskIndices
    /\ tasks[i].node = EXTRACT_SINGLE_PAPER_NODE
    /\ LET paper == tasks[i].state["paper"]
           paper_index == tasks[i].state["paper_index"]
       IN /\ tasks' =
                [tasks EXCEPT
                    ![i].node = ANALYZE_SINGLE_PAPER_NODE,
                    ![i].state =
                        Update(@, [extracted_content |->
                                      ExtractedContent(paper.id, clock)])]
          /\ log' = Append(log, Event("extract", paper_index))
    /\ clock' = clock + 1
    /\ UNCHANGED <<current_node, state, frame, inbox, response, exception,
                   exit_code>>

\* Command(goto=COLLECT_RESULTS_NODE, update={"analysis": analysis}); the
\* join over paper.ai_keywords raises on a malformed value, and the exception
\* leaves the sub-workflow and graph.invoke with nothing written.
analyze_single_paper_node(i) ==
    /\ Running
    /\ i \in TaskIndices
    /\ tasks[i].node = ANALYZE_SINGLE_PAPER_NODE
    /\ LET paper == tasks[i].state["paper"]
           paper_index == tasks[i].state["paper_index"]
       IN /\ log' = Append(log, Event("analyze", paper_index))
          /\ IF AnalysisRaises(paper)
             THEN /\ exception' = "TypeError"
                  /\ tasks' = tasks
                  /\ clock' = clock
             ELSE /\ exception' = exception
                  /\ tasks' =
                        [tasks EXCEPT
                            ![i].node = COLLECT_RESULTS_NODE,
                            ![i].state =
                                Update(@, [analysis |->
                                              Analysis(paper.id, clock)])]
                  /\ clock' = clock + 1
    /\ UNCHANGED <<current_node, state, frame, inbox, response, exit_code>>

\* A finished sub-workflow hands its state on, in the order of finishing; with
\* the last of them the run moves to collect_results_node.
task_report(i) ==
    /\ Running
    /\ current_node = PROCESS_SINGLE_PAPER_NODE
    /\ i \in TaskIndices
    /\ tasks[i].node = COLLECT_RESULTS_NODE
    /\ ~tasks[i].joined
    /\ tasks' = [tasks EXCEPT ![i].joined = TRUE]
    /\ inbox' = Append(inbox, tasks[i].state)
    /\ current_node' =
        IF \A j \in TaskIndices \ {i} : tasks[j].joined
        THEN COLLECT_RESULTS_NODE
        ELSE current_node
    /\ UNCHANGED <<state, frame, response, clock, exception, exit_code, log>>

\* The run after a discovery of one to MaxTasks papers.
SubInit ==
    /\ current_node = PROCESS_SINGLE_PAPER_NODE
    /\ \E papers \in SeqsUpTo(Papers, MaxTasks) :
        /\ papers # <<>>
        /\ state = Update(initial_state, [discovered_papers |-> papers])
        /\ log = <<Event("discover", Len(papers))>>
    /\ frame = NoFrame
    /\ inbox = <<>>
    /\ tasks = NoTasks
    /\ response = NoResponse
    /\ clock = 1
    /\ exception = None
    /\ exit_code = -1

SubNext ==
    \/ fan_out
    \/ \E i \in TaskIndices : extract_single_paper_node(i)
    \/ \E i \in TaskIndices : analyze_single_paper_node(i)
    \/ \E i \in TaskIndices : task_report(i)
    \/ collect_results_node
    \/ delivery_node
    \/ main_return
    \/ main_raise

SubSpec == SubInit /\ [][SubNext]_vars

\* ================================================================ properties
CountOps(op) == Cardinality({i \in 1..Len(log) : log[i].op = op})

Terminated == exit_code # -1

\* The run-level status: the code keeps none, so it is read off what a run
\* leaves behind. Failed: graph.invoke raised, or the run ended with the
\* top-level error set; Completed: the run ended with neither.
RunStatus ==
    IF exception # None THEN "Failed"
    ELSE IF current_node # END THEN "Running"
    ELSE IF state["error"] # None THEN "Failed"
    ELSE "Completed"

DeliveryStarted ==
    current_node = DELIVERY_NODE \/ "delivery_status" \in DOMAIN state

\* The items the discovery step produced (it has run once "discover" is logged).
Discovered == CountOps("discover") > 0

DiscoveredItems == fetch_daily_papers(response)

\* The feed answered and none of its elements carries a paper.
NoPaperOffered ==
    /\ response.kind = "ok"
    /\ \A i \in 1..Len(response.items) : ~response.items[i].has_paper

C3_EmptyDiscoveryDelivers ==
    (Terminated /\ response.kind = "ok" /\ DiscoveredItems = <<>>) =>
        /\ RunStatus = "Completed"
        /\ CountOps("deliver") = 1
        /\ Get(state, "processed_papers", <<>>) = <<>>
        /\ "delivery_status" \in DOMAIN state

\* C4: when discovery yields zero items (the fetch returned an empty list, or
\* the feed offered no paper at all), no extract and no analyze step runs.
C4_NoStepsOnEmptyDiscovery ==
    (Discovered /\ (DiscoveredItems = <<>> \/ NoPaperOffered)) =>
        /\ CountOps("extract") = 0
        /\ CountOps("analyze") = 0
        /\ ~frame.active

C4_Witness ==
    /\ Terminated
    /\ response.kind = "ok"
    /\ Len(response.items) >= 2
    /\ NoPaperOffered
    /\ CountOps("extract") = 0

\* C5: when the fetch fails (request error or malformed data), the run ends
\* with the top-level error set (status Failed), no item is processed and the
\* delivery step never runs.
C5_DiscoveryFailure ==
    response.kind \in {"request_error", "malformed"} =>
        /\ current_node = END
        /\ state["error"] # None
        /\ RunStatus = "Failed"
        /\ ~frame.active
        /\ CountOps("extract") = 0
        /\ CountOps("analyze") = 0
        /\ CountOps("deliver") = 0
        /\ "delivery_status" \notin DOMAIN state
        /\ "processed_papers" \notin DOMAIN state

C5_Witness ==
    /\ response.kind = "request_error"
    /\ Terminated
    /\ state["error"] = "No papers fetched"

\* C6: once the collector has run, processed_papers is in strictly ascending
\* order of item index (sorted, no index twice), whatever the order of the list
\* it was handed.
C6_ProcessedSortedNoDuplicates ==
    CountOps("collect") > 0 =>
        /\ Len(state["processed_papers"]) = Len(ProcessedIndices(inbox))
        /\ \A j, k \in 1..Len(state["processed_papers"]) :
              j < k => ProcessedIndices(inbox)[j] < ProcessedIndices(inbox)[k]

\* The permutations of a sequence.
SeqPermutations(seq) ==
    {[k \in 1..Len(seq) |-> seq[f[k]]] :
        f \in {g \in [1..Len(seq) -> 1..Len(seq)] :
                  \A a, b \in 1..Len(seq) : a # b => g[a] # g[b]}}

\* C7: collecting the same outcomes in any order gives the same result.
C7_OrderIndependent ==
    CountOps("collect") > 0 =>
        \A q \in SeqPermutations(inbox) :
            /\ CollectResults(q).processed_papers = state["processed_papers"]
            /\ CollectResults(q).extraction_results = state["extraction_results"]
            /\ CollectResults(q).analysis_results = state["analysis_results"]

HasDuplicateIndex(states) ==
    \E j, k \in 1..Len(states) :
        j # k /\ ProcessedIndices(states)[j] = ProcessedIndices(states)[k]

\* C8: a list in which an index occurs twice is rejected with a run-level
\* error, and nothing is recorded from it.
C8_DuplicateRejected ==
    (CountOps("collect") > 0 /\ HasDuplicateIndex(inbox)) =>
        /\ RunStatus = "Failed"
        /\ CountOps("deliver") = 0

\* No node writes a per-item failure anywhere: the failure mapping of the
\* aggregated result is empty in every state.
FailuresByIndex == Get(state, "failures", EmptyDict)

\* C9: when aggregation is complete, every processed item's index is in
\* exactly one of the extraction mapping and the failure mapping, and the
\* number of processed items is the size of their union.
C9_ExactlyOnceAccounting ==
    Get(state, "processing_complete", FALSE) =>
        LET ok == DOMAIN Get(state, "extraction_results", EmptyDict)
            failed == DOMAIN FailuresByIndex
        IN /\ ok \cap failed = {}
           /\ Len(Get(state, "processed_papers", <<>>)) =
                 Cardinality(ok \cup failed)

C11_ExitCodeReflectsStatus ==
    Terminated =>
        /\ (exit_code = 0) <=> (RunStatus = "Completed")
        /\ (RunStatus = "Failed") => (exit_code # 0)

\* C12: the top-level error is set only when the fetch itself failed; a fetch
\* that succeeds with no paper leaves it unset.
C12_ErrorOnlyOnDiscoveryFailure ==
    /\ (state["error"] # None) =>
          (response.kind \in {"request_error", "malformed"})
    /\ (Discovered /\ response.kind = "ok" /\ DiscoveredItems = <<>>) =>
          (state["error"] = None)

\* The run was cancelled inside map_extraction_node after some but not all of
\* its items were done.
CancelledMidway ==
    /\ exception = KeyboardInterrupt
    /\ current_node = MAP_EXTRACTION_NODE
    /\ 0 < CountOps("analyze")
    /\ CountOps("analyze") < Len(state["discovered_papers"])

RunOrder ==
    /\ \A i \in 1..Len(log) :
          /\ (log[i].op = "discover") <=> (i = 1)
          /\ (log[i].op = "deliver") => (i = Len(log) /\ i > 1)
          /\ log[i].op \in {"discover", "extract", "analyze", "deliver"}
    /\ (current_node \in {START, PAPER_DISCOVERY_NODE}) => (log = <<>>)
    /\ (current_node \in {MAP_EXTRACTION_NODE, DELIVERY_NODE}) =>
          (Discovered /\ CountOps("deliver") = 0)
    /\ (current_node = DELIVERY_NODE) => ~frame.active
    /\ (CountOps("deliver") = 1) => (current_node = END)
    /\ frame.active => current_node = MAP_EXTRACTION_NODE

ExtractionKeys ==
    DOMAIN Get(state, "extraction_results", EmptyDict)
    \cup (IF frame.active THEN DOMAIN frame.extraction_results ELSE {})

AnalysisKeys ==
    DOMAIN Get(state, "analysis_results", EmptyDict)
    \cup (IF frame.active THEN DOMAIN frame.analysis_results ELSE {})

CountEvents(op, idx) ==
    Cardinality({i \in 1..Len(log) : log[i] = Event(op, idx)})

FirstEvent(op, idx) ==
    IF CountEvents(op, idx) = 0 THEN 0
    ELSE CHOOSE k \in 1..Len(log) :
            /\ log[k] = Event(op, idx)
            /\ \A j \in 1..(k - 1) : log[j] # Event(op, idx)

\* Where the sub-workflow of one item stands, in the words of the state
\* machine: before its extraction (Pending/Extracting), between extraction and
\* analysis (Analyzing), after its analysis (Done).
ItemStateShape(t) ==
    LET idx == t.state["paper_index"]
        hasExtracted == "extracted_content" \in DOMAIN t.state
        hasAnalysis == "analysis" \in DOMAIN t.state
    IN /\ t.node \in {EXTRACT_SINGLE_PAPER_NODE, ANALYZE_SINGLE_PAPER_NODE,
                      COLLECT_RESULTS_NODE}
       /\ t.node = EXTRACT_SINGLE_PAPER_NODE =>
            /\ ~hasExtracted /\ ~hasAnalysis
            /\ CountEvents("extract", idx) = 0
            /\ CountEvents("analyze", idx) = 0
       /\ t.node = ANALYZE_SINGLE_PAPER_NODE =>
            /\ hasExtracted /\ ~hasAnalysis
            /\ CountEvents("extract", idx) = 1
            /\ CountEvents("analyze", idx) <= 1
            /\ CountEvents("analyze", idx) = 1 => exception # None
       /\ t.node = COLLECT_RESULTS_NODE =>
            /\ hasExtracted /\ hasAnalysis
            /\ CountEvents("extract", idx) = 1
            /\ CountEvents("analyze", idx) = 1
       /\ CountEvents("analyze", idx) > 0 =>
            /\ CountEvents("extract", idx) > 0
            /\ FirstEvent("extract", idx) < FirstEvent("analyze", idx)
       /\ t.joined => t.node = COLLECT_RESULTS_NODE

\* A sub-workflow only moves forward, one step at a time.
ItemStateStep(old, new) ==
    \/ new.node = old.node
    \/ /\ old.node = EXTRACT_SINGLE_PAPER_NODE
       /\ new.node = ANALYZE_SINGLE_PAPER_NODE
    \/ /\ old.node = ANALYZE_SINGLE_PAPER_NODE
       /\ new.node = COLLECT_RESULTS_NODE

ProcessExits == <>Terminated

\* The accumulators of collect_results_node before its loop.
NoResults ==
    [processed_papers |-> <<>>,
     extraction_results |-> EmptyDict,
     analysis_results |-> EmptyDict]

\* The k-th pass of the collector's loop over the handed-on states adds one
\* paper and files the item's results under a key no earlier pass has used,
\* leaving the earlier entries as they were.
OneMutationPerReport(k) ==
    LET before == CollectLoop(NoResults, SubSeq(inbox, 1, k - 1))
        after == CollectOne(before, inbox[k])
        idx == inbox[k]["paper_index"]
    IN /\ after.processed_papers = Append(before.processed_papers, inbox[k]["paper"])
       /\ idx \notin DOMAIN before.extraction_results
       /\ idx \notin DOMAIN before.analysis_results
       /\ DOMAIN after.extraction_results = DOMAIN before.extraction_results \cup {idx}
       /\ DOMAIN after.analysis_results = DOMAIN before.analysis_results \cup {idx}
       /\ \A j \in DOMAIN before.extraction_results :
            after.extraction_results[j] = before.extraction_results[j]
       /\ \A j \in DOMAIN before.analysis_results :
            after.analysis_results[j] = before.analysis_results[j]

\* Once collected, the outcome every sub-workflow handed on is in the result.
NoOutcomeLost ==
    "processing_complete" \in DOMAIN state =>
        /\ Len(state["processed_papers"]) = Cardinality(TaskIndices)
        /\ DOMAIN state["extraction_results"] = TaskIndices
        /\ DOMAIN state["analysis_results"] = TaskIndices
        /\ \A i \in TaskIndices :
            /\ tasks[i].joined
            /\ state["extraction_results"][i] = tasks[i].state["extracted_content"]
            /\ state["analysis_results"][i] = tasks[i].state["analysis"]

ItemStep ==
    /\ current_node = MAP_EXTRACTION_NODE
    /\ frame.active
    /\ log' # log

SubWorkflowFrame ==
    [][\A i \in TaskIndices \cap DOMAIN tasks' :
          (tasks'[i].state # tasks[i].state) =>
              /\ \A j \in TaskIndices \ {i} : tasks'[j] = tasks[j]
              /\ inbox' = inbox
              /\ state' = state
              /\ DOMAIN tasks'[i].state \ DOMAIN tasks[i].state
                    \in {{"extracted_content"}, {"analysis"}}
              /\ \A k \in DOMAIN tasks[i].state :
                    tasks'[i].state[k] = tasks[i].state[k]]_vars

ProcessingComplete == Get(state, "processing_complete", FALSE)

IsDiscoveredPaper(paper) ==
    \E k \in 1..Len(state["discovered_papers"]) :
        paper = state["discovered_papers"][k]

HeldPapers ==
    {Get(state, "processed_papers", <<>>)[k] :
        k \in 1..Len(Get(state, "processed_papers", <<>>))}
    \cup (IF frame.active
          THEN {frame.processed_papers[k] :
                    k \in 1..Len(frame.processed_papers)}
          ELSE {})
    \cup {tasks[i].state["paper"] : i \in TaskIndices}
    \cup {inbox[k]["paper"] : k \in 1..Len(inbox)}

MapExtractionStep_one_based(acc, idx, paper, now) ==
    [processed_papers |-> Append(acc.processed_papers, paper),
     extraction_results |->
        DictSet(acc.extraction_results, idx + 1,
                ExtractedContent(paper.id, now)),
     analysis_results |->
        DictSet(acc.analysis_results, idx + 1, Analysis(paper.id, now + 1))]

\* map_extraction_node as a function of the discovered list (no item failing):
\* one pass of its loop on the accumulators ...
MapExtractionStep(acc, idx, paper, now) ==
    [processed_papers |-> Append(acc.processed_papers, paper),
     extraction_results |->
        DictSet(acc.extraction_results, idx, ExtractedContent(paper.id, now)),
     analysis_results |->
        DictSet(acc.analysis_results, idx, Analysis(paper.id, now + 1))]

\* ... the loop `for idx, paper in enumerate(state["discovered_papers"])` ...
RECURSIVE MapExtractionLoop(_, _, _, _)
MapExtractionLoop(acc, papers, idx, now) ==
    IF idx >= Len(papers) THEN acc
    ELSE MapExtractionLoop(MapExtractionStep(acc, idx, papers[idx + 1], now),
                           papers, idx + 1, now + 2)

\* ... and the update the node returns.
MapExtractionUpdate(papers, now) ==
    IF papers = <<>>
    THEN [processing_complete |-> TRUE]
    ELSE LET acc == MapExtractionLoop(NoResults, papers, 0, now)
         IN [processed_papers |-> acc.processed_papers,
             extraction_results |-> acc.extraction_results,
             analysis_results |-> acc.analysis_results,
             processing_complete |-> TRUE]

\* The function is the node: what a run of map_extraction_node has written is
\* MapExtractionUpdate of the discovered list.
MapExtractionUpdateIsNode ==
    (ProcessingComplete /\ current_node \in {DELIVERY_NODE, END}) =>
        LET update == MapExtractionUpdate(state["discovered_papers"], 1)
        IN \A key \in DOMAIN update :
            /\ key \in DOMAIN state
            /\ state[key] = update[key]

\* The final states of the sub-workflows, in the order of their paper_index.
OutcomesInIndexOrder ==
    [k \in 1..Cardinality(TaskIndices) |-> tasks[k - 1].state]

AllTasksDone ==
    /\ tasks # NoTasks
    /\ \A i \in TaskIndices : tasks[i].node = COLLECT_RESULTS_NODE

SameResult(sub, flat) ==
    /\ Get(sub, "processed_papers", <<>>) = Get(flat, "processed_papers", <<>>)
    /\ DOMAIN Get(sub, "extraction_results", EmptyDict)
          = DOMAIN Get(flat, "extraction_results", EmptyDict)
    /\ DOMAIN Get(sub, "analysis_results", EmptyDict)
          = DOMAIN Get(flat, "analysis_results", EmptyDict)
    /\ Get(sub, "processing_complete", FALSE)
          = Get(flat, "processing_complete", FALSE)

\* C25: when every sub-workflow of a discovered list has run its two steps
\* without failure, collect_results_node on their final states in index
\* order gives the processed papers, the extraction keys and the analysis
\* keys that map_extraction_node gives on the same list (a key the flat
\* node leaves out for the empty list reads as empty, as delivery reads it).
C25_DesignsAgree ==
    /\ AllTasksDone =>
        SameResult(CollectResults(OutcomesInIndexOrder),
                   MapExtractionUpdate(state["discovered_papers"], 1))
    /\ SameResult(CollectResults(<<>>), MapExtractionUpdate(<<>>, 1))

\* Both sub-workflows of a list of two papers are done, the second one first.
C25_Witness ==
    /\ AllTasksDone
    /\ Cardinality(TaskIndices) = 2
    /\ tasks[1].state["analysis"].analysis_timestamp
          < tasks[0].state["analysis"].analysis_timestamp
    /\ state["discovered_papers"][1] # state["discovered_papers"][2]

\* --------------------------------------------------------- graph wiring
\* The nodes build_graph registers in the main graph ...
MainGraphNodes ==
    {PAPER_DISCOVERY_NODE, MAP_EXTRACTION_NODE, PROCESS_SINGLE_PAPER_NODE,
     COLLECT_RESULTS_NODE, DELIVERY_NODE}

\* ... and those build_single_paper_subgraph registers in the sub-graph.
SubGraphNodes == {EXTRACT_SINGLE_PAPER_NODE, ANALYZE_SINGLE_PAPER_NODE}

\* C26: the successor a finished node names is END or a node registered in
\* the graph the node belongs to: the main graph for the position of the run,
\* the single-paper sub-graph for the position of each sub-workflow.
C26_TargetsDefined ==
    /\ current_node \in MainGraphNodes \cup {START, END}
    /\ \A i \in TaskIndices : tasks[i].node \in SubGraphNodes \cup {END}

ErrorSet == state["error"] # None

DeliveryStatusSet == "delivery_status" \in DOMAIN state

====
